---- MODULE Spec2Model ----
(***************************************************************************)
(* State-machine model of WGAN-GP/wgan_gp.py: the script's start-up        *)
(* (argument and config loading, result directory, model load/init), the   *)
(* training loop (epochs, outer iterations, discriminator and generator    *)
(* update steps, adaptive step scheduler, metric streams), checkpointing,  *)
(* the final evaluation and save, and compute_gradient_penalty.            *)
(*                                                                         *)
(* Abstractions.  Model parameters are opaque tokens <<launch, n>>: the    *)
(* n-th optimizer step of a launch yields a token no other step yields,    *)
(* and torch.save / torch.load copy tokens.  A loss value is labelled by   *)
(* the step index under which the script logs it (the x value handed to    *)
(* writer.add_scalar).  A stored gradient is the set of backward passes    *)
(* accumulated into it since it was last zeroed.  Paths are sequences of   *)
(* <<name, number>> components relative to the working directory.          *)
(***************************************************************************)
EXTENDS Integers, Sequences, FiniteSets, TLC

\* ---------------------------------------------------------------- bounds
MaxEpochs == 2
MaxData == 3
MaxBatch == 2
MaxBase == 2
MaxCheckpoints == 2
MaxRuns == 2
LongEpochs == 520
ResumeEpochs == 27
ResumeCheckpoints == 13
LongCheckpoints == 500
PenBatch == 2
MaxComp == 10
MaxLambda == 2
GradScale == 5

\* ------------------------------------------------------ program constants
WarmupSteps == 100
WarmupIters == 25
CatchupPeriod == 500

VARIABLES
    \* file system and launch inputs (survive the process)
    dirs, cfgs, snap, now, run, status,
    config, dataset_size, resume_from_folder, config_resume_training,
    \* process memory (module-level globals of the script)
    pc, resume_training, result_dir,
    disc_params, gen_params, disc_requires_grad, gen_requires_grad,
    disc_grad, gen_grad,
    disc_losses, gen_losses, w_distances, gradient_penalty_list,
    gen_iterations, steps, e, i, j, disc_steps,
    train_iterator, common_batch_size,
    \* history variables (observations, not program state)
    iter_start_i, iter_start_g, iter_start_steps, last_update, last_backward,
    last_ckpt, epoch_start_steps, epoch_start_g,
    \* compute_gradient_penalty: inputs and result
    gradients, lambda_pen, penalty

fsVars == <<dirs, cfgs, snap, now, run, status, config, dataset_size,
            resume_from_folder, config_resume_training>>
memVars == <<pc, resume_training, result_dir, disc_params, gen_params,
             disc_requires_grad, gen_requires_grad, disc_grad, gen_grad,
             disc_losses, gen_losses, w_distances, gradient_penalty_list,
             gen_iterations, steps, e, i, j, disc_steps,
             train_iterator, common_batch_size>>
histVars == <<iter_start_i, iter_start_g, iter_start_steps, last_update,
              last_backward, last_ckpt>>
epochHist == <<epoch_start_steps, epoch_start_g>>
penVars == <<gradients, lambda_pen, penalty>>
vars == <<fsVars, memVars, histVars, epochHist, penVars>>

\* ------------------------------------------------------------- paths
Cwd == <<>>
NoFolder == << <<"None", 0>> >>
NoParams == <<0, 0>>
NoSnapshot == <<NoParams, NoParams>>

Min(a, b) == IF a < b THEN a ELSE b

\* the result directory of a fresh run started in minute t
FreshResultDir(t) == << <<"run", t>> >>

\* checkpoint(): the directory a checkpoint of the given epoch is written to
CheckDir(dir, resumed, epoch) ==
    IF ~resumed THEN dir \o << <<"checkpoint_ep", epoch>> >>
    ELSE dir \o << <<"checkpoint_resumed_ep", epoch>> >>

\* torch.save of the discriminator state dict alone into directory d: the
\* generator file of d stays what it was (NoParams when there is none)
SaveDiscriminator(s, d, dp) ==
    [p \in (DOMAIN s) \cup {d} |->
        IF p = d THEN <<dp, IF d \in DOMAIN s THEN s[d][2] ELSE NoParams>>
        ELSE s[p]]

\* directory d holds both discriminator.pt and generator.pt
HasSnapshot(s, d) ==
    d \in DOMAIN s /\ s[d][1] # NoParams /\ s[d][2] # NoParams

\* torch.save of both state dicts into directory d
SaveSnapshot(s, d, dp, gp) ==
    [p \in (DOMAIN s) \cup {d} |-> IF p = d THEN <<dp, gp>> ELSE s[p]]

\* ------------------------------------------------------------- data loader
\* len(train_loader): DataLoader without drop_last
LenTrainLoader == (dataset_size + config.batch_size - 1) \div config.batch_size

\* images.shape[0] of the k-th batch of an epoch (k = 1 .. len)
BatchShape(k) ==
    IF k < LenTrainLoader THEN config.batch_size
    ELSE dataset_size - (LenTrainLoader - 1) * config.batch_size

\* ------------------------------------------------------------- scheduler
Scheduler_LosesBaseline(g, working, baseline) ==
    IF g < WarmupIters \/ g % CatchupPeriod = 0 THEN WarmupSteps ELSE working

\* the adaptive step count chosen at the start of an outer iteration
Scheduler(g, working, baseline) ==
    IF g < WarmupIters \/ g % CatchupPeriod = 0 THEN WarmupSteps ELSE baseline

InnerCond_OffByOne(jj, ds, ii, len) == jj <= ds /\ ii < len

InnerCond_NoCursor(jj, ds, ii, len) == jj < ds

\* condition of the inner discriminator loop
InnerCond(jj, ds, ii, len) == jj < ds /\ ii < len

\* ------------------------------------------------------------- autograd
DiscTrainableInGenPhase_Mut == TRUE

\* requires_grad of the discriminator parameters set before a discriminator phase
DiscTrainableInDiscPhase == TRUE

\* requires_grad of the discriminator parameters set before a generator step
DiscTrainableInGenPhase == FALSE

Backward_IgnoresFreeze(grad, requires_grad, tag) == grad \cup {tag}

\* loss.backward(): accumulate into the stored gradient of trainable parameters
Backward(grad, requires_grad, tag) ==
    IF requires_grad THEN grad \cup {tag} ELSE grad

\* optimizer.step(): parameters that received a gradient are updated
OptimizerStep(params, grad, token) == IF grad = {} THEN params ELSE token

AppendMetric_Window(stream, v) ==
    IF Len(stream) < 1 THEN Append(stream, v) ELSE Append(Tail(stream), v)

\* list.append on a metric stream
AppendMetric(stream, v) == Append(stream, v)

InitialGenIterations_SkipWarmup(resumed) == IF resumed THEN WarmupIters ELSE 0

\* gen_iterations at the start of a run
InitialGenIterations(resumed) == 0

\* ------------------------------------------------------------- process exit
\* the process is gone: its memory is lost, the file system stays
Halt(st) ==
    /\ status' = st
    /\ pc' = "off"
    /\ resume_training' = FALSE
    /\ result_dir' = Cwd
    /\ disc_params' = NoParams
    /\ gen_params' = NoParams
    /\ disc_requires_grad' = FALSE
    /\ gen_requires_grad' = FALSE
    /\ disc_grad' = {}
    /\ gen_grad' = {}
    /\ disc_losses' = <<>>
    /\ gen_losses' = <<>>
    /\ w_distances' = <<>>
    /\ gradient_penalty_list' = <<>>
    /\ gen_iterations' = 0
    /\ steps' = 0
    /\ e' = -1
    /\ i' = 0
    /\ j' = 0
    /\ disc_steps' = 0
    /\ train_iterator' = 0
    /\ common_batch_size' = 0
    /\ iter_start_i' = 0
    /\ iter_start_g' = 0
    /\ iter_start_steps' = 0
    /\ epoch_start_steps' = 0
    /\ epoch_start_g' = 0
    /\ last_update' = "none"
    /\ last_backward' = [kind |-> "none", disc |-> FALSE, gen |-> FALSE]

\* ------------------------------------------------------------- start-up
\* the script from argument parsing to the run state initialisation, for
\* the command-line flag `flag`, the value `rt` of the resume_training key
\* of the config file that is read, and the minute `t` of the launch
Startup(flag, rt, t) ==
    /\ status # "running"
    /\ run < MaxRuns
    /\ run' = run + 1
    /\ now' = t
    /\ resume_from_folder' = flag
    /\ config_resume_training' = rt
    /\ UNCHANGED <<config, dataset_size, last_ckpt, penVars>>
    /\ LET config_dir == IF flag # NoFolder THEN flag ELSE Cwd
           fresh_dir == FreshResultDir(t)
       IN  IF config_dir \notin cfgs
           THEN /\ Halt("err_no_config")
                /\ UNCHANGED <<dirs, cfgs, snap>>
           ELSE IF ~rt /\ fresh_dir \in dirs
           THEN /\ Halt("abort_dir_exists")
                /\ UNCHANGED <<dirs, cfgs, snap>>
           ELSE IF rt /\ ~HasSnapshot(snap, flag)
           THEN /\ Halt("err_no_snapshot")
                /\ UNCHANGED <<dirs, cfgs, snap>>
           ELSE /\ status' = "running"
                /\ resume_training' = rt
                /\ result_dir' = IF ~rt THEN fresh_dir ELSE flag
                /\ dirs' = IF ~rt THEN dirs \cup {fresh_dir} ELSE dirs
                /\ cfgs' = IF ~rt THEN cfgs \cup {fresh_dir} ELSE cfgs
                /\ snap' = snap
                /\ disc_params' = IF rt THEN snap[flag][1] ELSE <<run + 1, 0>>
                /\ gen_params' = IF rt THEN snap[flag][2] ELSE <<run + 1, 0>>
                /\ disc_requires_grad' = TRUE
                /\ gen_requires_grad' = TRUE
                /\ disc_grad' = {}
                /\ gen_grad' = {}
                /\ disc_steps' = config.disc_steps
                /\ disc_losses' = <<>>
                /\ gen_losses' = <<>>
                /\ w_distances' = <<>>
                /\ gradient_penalty_list' = <<>>
                /\ gen_iterations' = InitialGenIterations(rt)
                /\ steps' = 0
                /\ e' = -1
                /\ i' = 0
                /\ j' = 0
                /\ train_iterator' = 0
                /\ common_batch_size' = 0
                /\ iter_start_i' = 0
                /\ iter_start_g' = 0
                /\ iter_start_steps' = 0
                /\ epoch_start_steps' = 0
                /\ epoch_start_g' = 0
                /\ last_update' = "none"
                /\ last_backward' = [kind |-> "none", disc |-> FALSE, gen |-> FALSE]
                /\ pc' = "for"

\* a launch terminated from outside during start-up: before the result
\* directory is made (stage 0), or between os.makedirs(result_dir) and the
\* copy of config.yml into it (stage 1); a termination after the copy leaves
\* what Startup followed by Kill leaves
KilledStartup(flag, rt, t, stage) ==
    /\ status # "running"
    /\ run < MaxRuns
    /\ run' = run + 1
    /\ now' = t
    /\ resume_from_folder' = flag
    /\ config_resume_training' = rt
    /\ Halt("killed")
    /\ UNCHANGED <<cfgs, snap, config, dataset_size, last_ckpt, penVars>>
    /\ IF stage = 0
       THEN dirs' = dirs
       ELSE /\ (IF flag # NoFolder THEN flag ELSE Cwd) \in cfgs
            /\ ~rt
            /\ FreshResultDir(t) \notin dirs
            /\ dirs' = dirs \cup {FreshResultDir(t)}

KillInStartup ==
    \E flag \in {NoFolder} \cup dirs, rt \in BOOLEAN, t \in {now, now + 1},
       stage \in {0, 1} :
        KilledStartup(flag, rt, t, stage)

\* a launch with any command line, config value and launch minute
Launch ==
    \E flag \in {NoFolder} \cup dirs, rt \in BOOLEAN, t \in {now, now + 1} :
        Startup(flag, rt, t)

\* the launch of one fresh run
LaunchFresh == Startup(NoFolder, FALSE, now + 1)

\* ------------------------------------------------------------- training loop
RangeHasNext_ExtraEpoch(last, epochs) == last + 1 <= epochs

\* range(epochs) yields another value after `last` (-1 before the first)
RangeHasNext(last, epochs) == last + 1 < epochs

\* for e in range(epochs): next epoch, fresh batch iterator and cursor
EpochStart ==
    /\ pc = "for"
    /\ RangeHasNext(e, config.epochs)
    /\ e' = e + 1
    /\ train_iterator' = 0
    /\ i' = 0
    /\ pc' = "while"
    /\ epoch_start_steps' = steps
    /\ epoch_start_g' = gen_iterations
    /\ UNCHANGED <<fsVars, resume_training, result_dir, disc_params, gen_params,
                   disc_requires_grad, gen_requires_grad, disc_grad, gen_grad,
                   disc_losses, gen_losses, w_distances, gradient_penalty_list,
                   gen_iterations, steps, j, disc_steps, common_batch_size,
                   histVars, penVars>>

\* range(epochs) is exhausted: the training loop ends
LoopExit ==
    /\ pc = "for"
    /\ ~RangeHasNext(e, config.epochs)
    /\ pc' = "test"
    /\ UNCHANGED <<fsVars, resume_training, result_dir, disc_params, gen_params,
                   disc_requires_grad, gen_requires_grad, disc_grad, gen_grad,
                   disc_losses, gen_losses, w_distances, gradient_penalty_list,
                   gen_iterations, steps, e, i, j, disc_steps, train_iterator,
                   common_batch_size, histVars, epochHist, penVars>>

\* start of an outer iteration: re-enable the discriminator, schedule, j = 0
OuterStart ==
    /\ pc = "while"
    /\ i < LenTrainLoader
    /\ disc_requires_grad' = DiscTrainableInDiscPhase
    /\ disc_steps' = Scheduler(gen_iterations, disc_steps, config.disc_steps)
    /\ j' = 0
    /\ iter_start_i' = i
    /\ iter_start_g' = gen_iterations
    /\ iter_start_steps' = steps
    /\ pc' = "inner"
    /\ UNCHANGED <<fsVars, resume_training, result_dir, disc_params, gen_params,
                   gen_requires_grad, disc_grad, gen_grad,
                   disc_losses, gen_losses, w_distances, gradient_penalty_list,
                   gen_iterations, steps, e, i, train_iterator,
                   common_batch_size, last_update, last_backward, last_ckpt,
                   epochHist, penVars>>

\* one discriminator update step
DiscStep ==
    /\ pc = "inner"
    /\ InnerCond(j, disc_steps, i, LenTrainLoader)
    /\ UNCHANGED <<dirs, cfgs, snap, now, run, config, dataset_size,
                   resume_from_folder, config_resume_training, last_ckpt, penVars>>
    /\ IF train_iterator >= LenTrainLoader
       THEN Halt("err_stop_iteration")
       ELSE LET tag == <<"D", steps>>
                dgrad == Backward({}, disc_requires_grad, tag)
            IN  /\ j' = j + 1
                /\ i' = i + 1
                /\ train_iterator' = train_iterator + 1
                /\ common_batch_size' =
                       Min(config.batch_size, BatchShape(train_iterator + 1))
                /\ disc_grad' = dgrad
                /\ gen_grad' = Backward(gen_grad, gen_requires_grad, tag)
                /\ last_backward' = [kind |-> "D", disc |-> disc_requires_grad,
                                     gen |-> gen_requires_grad]
                /\ disc_params' = OptimizerStep(disc_params, dgrad,
                                      <<run, steps + gen_iterations + 1>>)
                /\ disc_losses' = AppendMetric(disc_losses, steps)
                /\ w_distances' = AppendMetric(w_distances, steps)
                /\ gradient_penalty_list' = AppendMetric(gradient_penalty_list, steps)
                /\ steps' = steps + 1
                /\ last_update' = "D"
                /\ UNCHANGED <<status, pc, resume_training, result_dir, gen_params,
                               disc_requires_grad, gen_requires_grad, gen_losses,
                               gen_iterations, e, disc_steps,
                               iter_start_i, iter_start_g, iter_start_steps,
                               epochHist>>

\* one generator update step
GenStep ==
    /\ pc = "inner"
    /\ ~InnerCond(j, disc_steps, i, LenTrainLoader)
    /\ LET tag == <<"G", gen_iterations>>
           frozen == DiscTrainableInGenPhase
           ggrad == Backward({}, gen_requires_grad, tag)
       IN  /\ disc_requires_grad' = frozen
           /\ gen_grad' = ggrad
           /\ disc_grad' = Backward(disc_grad, frozen, tag)
           /\ last_backward' = [kind |-> "G", disc |-> frozen,
                                gen |-> gen_requires_grad]
           /\ gen_params' = OptimizerStep(gen_params, ggrad,
                                <<run, steps + gen_iterations + 1>>)
           /\ gen_losses' = AppendMetric(gen_losses, gen_iterations)
           /\ gen_iterations' = gen_iterations + 1
           /\ last_update' = "G"
           /\ pc' = "while"
    /\ UNCHANGED <<fsVars, resume_training, result_dir, disc_params,
                   gen_requires_grad, disc_losses, w_distances,
                   gradient_penalty_list, steps, e, i, j, disc_steps,
                   train_iterator, common_batch_size,
                   iter_start_i, iter_start_g, iter_start_steps, last_ckpt,
                   epochHist, penVars>>

\* end of an epoch: the periodic checkpoint
EpochEnd ==
    /\ pc = "while"
    /\ ~(i < LenTrainLoader)
    /\ IF e % config.checkpoints = 0
       THEN LET check_dir == CheckDir(result_dir, resume_training, e)
            IN  /\ dirs' = dirs \cup {check_dir}
                /\ snap' = SaveSnapshot(snap, check_dir, disc_params, gen_params)
                /\ last_ckpt' = <<disc_params, gen_params>>
       ELSE UNCHANGED <<dirs, snap, last_ckpt>>
    /\ pc' = "for"
    /\ UNCHANGED <<cfgs, now, run, status, config, dataset_size,
                   resume_from_folder, config_resume_training,
                   resume_training, result_dir, disc_params, gen_params,
                   disc_requires_grad, gen_requires_grad, disc_grad, gen_grad,
                   disc_losses, gen_losses, w_distances, gradient_penalty_list,
                   gen_iterations, steps, e, i, j, disc_steps, train_iterator,
                   common_batch_size, iter_start_i, iter_start_g,
                   iter_start_steps, last_update, last_backward, epochHist,
                   penVars>>

\* the final evaluation pass: both models frozen, no parameter changes
TestPass ==
    /\ pc = "test"
    /\ disc_requires_grad' = FALSE
    /\ gen_requires_grad' = FALSE
    /\ pc' = "save"
    /\ UNCHANGED <<fsVars, resume_training, result_dir, disc_params, gen_params,
                   disc_grad, gen_grad,
                   disc_losses, gen_losses, w_distances, gradient_penalty_list,
                   gen_iterations, steps, e, i, j, disc_steps, train_iterator,
                   common_batch_size, histVars, epochHist, penVars>>

\* the final parameter snapshots at the root of the result directory, then exit
FinalSave ==
    /\ pc = "save"
    /\ snap' = SaveSnapshot(snap, result_dir, disc_params, gen_params)
    /\ Halt("ok")
    /\ UNCHANGED <<dirs, cfgs, now, run, config, dataset_size,
                   resume_from_folder, config_resume_training, last_ckpt, penVars>>

\* the process is terminated inside checkpoint(): after os.makedirs(check_dir)
\* (stage 0) or between the two torch.save calls (stage 1)
KillInCheckpoint ==
    /\ pc = "while"
    /\ ~(i < LenTrainLoader)
    /\ e % config.checkpoints = 0
    /\ \E stage \in {0, 1} :
         LET check_dir == CheckDir(result_dir, resume_training, e)
         IN  /\ dirs' = dirs \cup {check_dir}
             /\ snap' = IF stage = 0 THEN snap
                        ELSE SaveDiscriminator(snap, check_dir, disc_params)
    /\ Halt("killed")
    /\ UNCHANGED <<cfgs, now, run, config, dataset_size,
                   resume_from_folder, config_resume_training, last_ckpt, penVars>>

\* the process is terminated inside the final save: between the two
\* torch.save calls (stage 1) or after both, before the script ends (stage 2)
KillInFinalSave ==
    /\ pc = "save"
    /\ \E stage \in {1, 2} :
         snap' = IF stage = 1
                 THEN SaveDiscriminator(snap, result_dir, disc_params)
                 ELSE SaveSnapshot(snap, result_dir, disc_params, gen_params)
    /\ Halt("killed")
    /\ UNCHANGED <<dirs, cfgs, now, run, config, dataset_size,
                   resume_from_folder, config_resume_training, last_ckpt, penVars>>

\* the process is terminated from outside between two steps of the script
Kill ==
    /\ status = "running"
    /\ Halt("killed")
    /\ UNCHANGED <<dirs, cfgs, snap, now, run, config, dataset_size,
                   resume_from_folder, config_resume_training, last_ckpt, penVars>>

\* ------------------------------------------------------------- configurations
\* config.yml of the short runs: the smallest and the largest batch size and
\* checkpoint period; the baseline is 1, runs this short never leave the
\* warm-up and so never read it
Configs ==
    [epochs : 1..MaxEpochs, batch_size : {1, MaxBatch},
     disc_steps : {1}, checkpoints : {1, MaxCheckpoints}]

LongConfigs ==
    [epochs : {LongEpochs}, batch_size : 1..MaxBatch,
     disc_steps : 1..MaxBase, checkpoints : {LongCheckpoints}]

\* nothing has run yet: the working directory holds config.yml only
InitOff ==
    /\ dirs = {}
    /\ cfgs = {Cwd}
    /\ snap = [p \in {} |-> NoSnapshot]
    /\ now = 0
    /\ run = 0
    /\ status = "none"
    /\ resume_from_folder = NoFolder
    /\ config_resume_training = FALSE
    /\ pc = "off"
    /\ resume_training = FALSE
    /\ result_dir = Cwd
    /\ disc_params = NoParams
    /\ gen_params = NoParams
    /\ disc_requires_grad = FALSE
    /\ gen_requires_grad = FALSE
    /\ disc_grad = {}
    /\ gen_grad = {}
    /\ disc_losses = <<>>
    /\ gen_losses = <<>>
    /\ w_distances = <<>>
    /\ gradient_penalty_list = <<>>
    /\ gen_iterations = 0
    /\ steps = 0
    /\ e = -1
    /\ i = 0
    /\ j = 0
    /\ disc_steps = 0
    /\ train_iterator = 0
    /\ common_batch_size = 0
    /\ iter_start_i = 0
    /\ iter_start_g = 0
    /\ iter_start_steps = 0
    /\ epoch_start_steps = 0
    /\ epoch_start_g = 0
    /\ last_update = "none"
    /\ last_backward = [kind |-> "none", disc |-> FALSE, gen |-> FALSE]
    /\ last_ckpt = NoSnapshot

Init ==
    /\ InitOff
    /\ config \in Configs
    /\ dataset_size \in 1..MaxData
    /\ gradients = <<>>
    /\ lambda_pen = 0
    /\ penalty = <<>>

Next ==
    \/ Launch
    \/ EpochStart
    \/ LoopExit
    \/ OuterStart
    \/ DiscStep
    \/ GenStep
    \/ EpochEnd
    \/ TestPass
    \/ FinalSave
    \/ Kill
    \/ KillInStartup
    \/ KillInCheckpoint
    \/ KillInFinalSave

Spec == Init /\ [][Next]_vars

\* fresh runs over many epochs, each running to completion
LongInit ==
    /\ InitOff
    /\ config \in LongConfigs
    /\ dataset_size = MaxData
    /\ gradients = <<>>
    /\ lambda_pen = 0
    /\ penalty = <<>>

LongNext ==
    \/ LaunchFresh
    \/ EpochStart
    \/ LoopExit
    \/ OuterStart
    \/ DiscStep
    \/ GenStep
    \/ EpochEnd
    \/ TestPass
    \/ FinalSave

LongSpec == LongInit /\ [][LongNext]_vars

\* runs long enough to leave the warm-up phase, with termination and resume
ResumeConfigs ==
    [epochs : {ResumeEpochs}, batch_size : {1, MaxBatch},
     disc_steps : {1, MaxBase}, checkpoints : {ResumeCheckpoints}]

ResumeInit ==
    /\ InitOff
    /\ config \in ResumeConfigs
    /\ dataset_size = MaxData
    /\ gradients = <<>>
    /\ lambda_pen = 0
    /\ penalty = <<>>

ResumeSpec == ResumeInit /\ [][Next]_vars

\* an uninterrupted process: the single-threaded script takes its next step
\* whenever it has one
Step ==
    \/ EpochStart
    \/ LoopExit
    \/ OuterStart
    \/ DiscStep
    \/ GenStep
    \/ EpochEnd
    \/ TestPass
    \/ FinalSave

LiveInit ==
    /\ InitOff
    /\ config \in Configs \cup ResumeConfigs
    /\ dataset_size \in 1..MaxData
    /\ gradients = <<>>
    /\ lambda_pen = 0
    /\ penalty = <<>>

LiveNext ==
    \/ Launch
    \/ Step

LiveSpec == LiveInit /\ [][LiveNext]_vars /\ WF_vars(Step)

\* ------------------------------------------------------------- gradient penalty
\* Gradient components are fixed-point numbers c / GradScale; the per-sample
\* gradients fed to the penalty are those whose L2 norm is exact on that grid.
ISqrt(n) == CHOOSE r \in 0..n : r * r <= n /\ (r + 1) * (r + 1) > n

GradVecs ==
    {v \in (-MaxComp..MaxComp) \X (-MaxComp..MaxComp) :
        ISqrt(v[1] * v[1] + v[2] * v[2]) * ISqrt(v[1] * v[1] + v[2] * v[2])
            = v[1] * v[1] + v[2] * v[2]}

\* gradients.norm(2, dim=1) of one flattened sample, in units of 1 / GradScale
Norm2(v) == ISqrt(v[1] * v[1] + v[2] * v[2])

SamplePenalty_NoSquare(v, lam) == (Norm2(v) - GradScale) * lam

\* (norm - 1) ** 2 * lambda_pen of one sample, in units of 1 / GradScale^2
SamplePenalty(v, lam) == (Norm2(v) - GradScale) * (Norm2(v) - GradScale) * lam

\* compute_gradient_penalty: the per-sample penalty of a batch of gradients
GradientPenalty(grads, lam) ==
    [k \in 1..Len(grads) |-> SamplePenalty(grads[k], lam)]

\* one call of compute_gradient_penalty
ComputeGradientPenalty ==
    /\ gradients # <<>>
    /\ penalty = <<>>
    /\ penalty' = GradientPenalty(gradients, lambda_pen)
    /\ UNCHANGED <<fsVars, memVars, histVars, epochHist, gradients, lambda_pen>>

PenInit ==
    /\ InitOff
    /\ config = [epochs |-> 1, batch_size |-> PenBatch, disc_steps |-> 1,
                 checkpoints |-> 1]
    /\ dataset_size = PenBatch
    /\ gradients \in [1..PenBatch -> GradVecs]
    /\ lambda_pen \in 0..MaxLambda
    /\ penalty = <<>>

PenNext == ComputeGradientPenalty

PenSpec == PenInit /\ [][PenNext]_vars

\* ------------------------------------------------------------- properties
IsPrefix(s, t) == Len(s) <= Len(t) /\ SubSeq(t, 1, Len(s)) = s

Running == status = "running"

SameRun == status = "running" /\ status' = "running" /\ run' = run

\* C1: at every outer iteration the working step count is 100 when the
\* generator-update count g is below 25 or a positive multiple of 500, and
\* the configured baseline otherwise, also right after a 100-step phase.
C1_SchedulerPolicy ==
    pc = "inner" =>
        disc_steps = IF gen_iterations < 25
                        \/ (gen_iterations > 0 /\ gen_iterations % 500 = 0)
                     THEN 100 ELSE config.disc_steps

C1_Witness ==
    /\ pc = "inner"
    /\ gen_iterations = 1501
    /\ disc_steps = config.disc_steps
    /\ disc_steps < 100

\* C2: an outer iteration performs exactly min(scheduled steps, remaining
\* batches) discriminator updates and then exactly one generator update; a
\* generator update is always directly preceded by a discriminator update
\* of the same outer iteration.
C2_Alternation ==
    /\ []((Running /\ pc = "while" /\ i > 0) =>
            /\ steps - iter_start_steps
                 = Min(disc_steps, LenTrainLoader - iter_start_i)
            /\ i - iter_start_i = steps - iter_start_steps
            /\ gen_iterations = iter_start_g + 1
            /\ last_update = "G")
    /\ [][gen_iterations' > gen_iterations =>
            /\ gen_iterations' = gen_iterations + 1
            /\ steps' = steps
            /\ steps - iter_start_steps >= 1
            /\ steps - iter_start_steps
                 = Min(disc_steps, LenTrainLoader - iter_start_i)
            /\ gen_iterations = iter_start_g
            /\ last_update = "D"]_vars

C2_Witness ==
    /\ pc = "while"
    /\ gen_iterations > 25
    /\ disc_steps = 2
    /\ steps - iter_start_steps = 2
    /\ i < LenTrainLoader
    /\ last_update = "G"

\* a launch whose command line and directory state allow what C3 describes:
\* a named folder holds a config and parameter snapshots, or no folder is
\* named and the fresh directory name is unused
C3_Applicable ==
    /\ run' = run + 1
    /\ status' # "killed"
    /\ IF resume_from_folder' # NoFolder
       THEN resume_from_folder' \in cfgs /\ HasSnapshot(snap, resume_from_folder')
       ELSE FreshResultDir(now') \notin dirs

\* C3: a run is a resumed run exactly when the resume-folder flag is given:
\* with the flag the named directory is reused and both models are loaded
\* from its snapshots, without it a fresh directory is created and both
\* models are freshly initialised, whatever resume_training the config has.
C3_FlagDecidesResume ==
    [][C3_Applicable =>
        /\ status' = "running"
        /\ resume_training' = (resume_from_folder' # NoFolder)
        /\ IF resume_from_folder' # NoFolder
           THEN /\ result_dir' = resume_from_folder'
                /\ dirs' = dirs
                /\ <<disc_params', gen_params'>> = snap[resume_from_folder']
           ELSE /\ result_dir' \notin dirs
                /\ result_dir' \in dirs'
                /\ disc_params' = <<run', 0>>
                /\ gen_params' = <<run', 0>>]_vars

\* C4: a resume after a run that saved at least one periodic checkpoint
\* starts training with exactly the parameters of the most recent
\* checkpoint save.
C4_ResumeFromLastCheckpoint ==
    [][(/\ run' = run + 1
        /\ status' # "killed"
        /\ resume_from_folder' # NoFolder
        /\ config_resume_training'
        /\ last_ckpt # NoSnapshot) =>
        /\ status' = "running"
        /\ <<disc_params', gen_params'>> = last_ckpt]_vars

\* C5 as stated: in every backward pass exactly the model being updated is
\* trainable and the other one is frozen.
C5_OnlyOneTrainable ==
    /\ last_backward.kind = "D" => last_backward.disc /\ ~last_backward.gen
    /\ last_backward.kind = "G" => last_backward.gen /\ ~last_backward.disc

\* C5 amended: the discriminator is trainable in the backward pass of every
\* discriminator step and frozen in that of every generator step; the
\* generator is trainable in every backward pass of the training loop.
C5_DiscToggledGenTrainable ==
    /\ last_backward.kind = "D" => last_backward.disc /\ last_backward.gen
    /\ last_backward.kind = "G" => ~last_backward.disc /\ last_backward.gen
    /\ (Running /\ pc \in {"for", "while", "inner"}) => gen_requires_grad

C5_Witness ==
    /\ last_backward = [kind |-> "G", disc |-> FALSE, gen |-> TRUE]
    /\ steps > 0
    /\ gen_iterations > 0

\* C6: a generator step runs with the discriminator frozen and leaves its
\* parameters and stored gradients unchanged; the discriminator then stays
\* frozen until the next discriminator phase re-enables it before its first
\* update, and it is frozen when the training loop ends.
C6_GenStepFreezesDisc ==
    /\ [][gen_iterations' > gen_iterations =>
            /\ ~disc_requires_grad'
            /\ ~last_backward'.disc
            /\ disc_params' = disc_params
            /\ disc_grad' = disc_grad]_vars
    /\ []((Running /\ last_update = "G" /\ pc # "inner") => ~disc_requires_grad)
    /\ [][(SameRun /\ steps' > steps) =>
            disc_requires_grad /\ last_backward'.disc]_vars
    /\ []((Running /\ pc = "test") => ~disc_requires_grad)

C6_Witness ==
    /\ pc = "test"
    /\ ~disc_requires_grad
    /\ gen_iterations > 1
    /\ disc_grad # {}
    /\ last_update = "G"

\* C7: the three discriminator streams have one entry per discriminator
\* update and the generator-loss stream one entry per generator update;
\* entries are only appended, never removed or changed, across epoch
\* boundaries and checkpoints.
C7_StreamsAppendOnly ==
    /\ [](Running =>
            /\ Len(disc_losses) = steps
            /\ Len(w_distances) = steps
            /\ Len(gradient_penalty_list) = steps
            /\ Len(gen_losses) = gen_iterations)
    /\ [][SameRun =>
            /\ IsPrefix(disc_losses, disc_losses')
            /\ IsPrefix(w_distances, w_distances')
            /\ IsPrefix(gradient_penalty_list, gradient_penalty_list')
            /\ IsPrefix(gen_losses, gen_losses')
            /\ Len(disc_losses') - Len(disc_losses)
                 = (IF disc_params' # disc_params THEN 1 ELSE 0)
            /\ Len(gen_losses') - Len(gen_losses)
                 = (IF gen_params' # gen_params THEN 1 ELSE 0)]_vars

C7_Witness ==
    /\ Running
    /\ e = 1
    /\ pc = "while"
    /\ i > 0
    /\ last_ckpt # NoSnapshot
    /\ Len(disc_losses) > i
    /\ Len(gen_losses) > 1

\* C8: with a dataset no larger than the batch size, epochs = 1 and
\* disc_steps = 1, the run never fails in the training loop and ends the
\* epoch with exactly one entry in each metric stream.
C8_SingleBatchEpoch ==
    (dataset_size <= config.batch_size /\ config.epochs = 1
        /\ config.disc_steps = 1) =>
        /\ status # "err_stop_iteration"
        /\ pc \in {"test", "save"} =>
             /\ Len(disc_losses) = 1
             /\ Len(gen_losses) = 1
             /\ Len(w_distances) = 1
             /\ Len(gradient_penalty_list) = 1

C8_Witness ==
    /\ dataset_size < config.batch_size
    /\ config.epochs = 1
    /\ config.disc_steps = 1
    /\ pc = "save"
    /\ disc_steps = 100
    /\ common_batch_size = dataset_size
    /\ Len(disc_losses) = 1
    /\ Len(gen_losses) = 1

\* C9: a resumed run takes only the model parameters from the earlier run:
\* its counters start at 0 and its streams empty, the scheduler returns 100
\* for its first 25 generator updates, and its epochs run from 0 to the
\* configured count.
C9_ResumeRestoresOnlyParams ==
    /\ [][(run' = run + 1 /\ status' = "running" /\ resume_training') =>
            /\ gen_iterations' = 0
            /\ steps' = 0
            /\ disc_losses' = <<>>
            /\ gen_losses' = <<>>
            /\ w_distances' = <<>>
            /\ gradient_penalty_list' = <<>>
            /\ e' = -1
            /\ <<disc_params', gen_params'>> = snap[result_dir']]_vars
    /\ []((Running /\ resume_training /\ pc = "inner" /\ gen_iterations < 25)
            => disc_steps = 100)
    /\ [][(SameRun /\ resume_training /\ e' # e) => e' = e + 1]_vars
    /\ []((Running /\ resume_training /\ pc = "test") => e = config.epochs - 1)

C9_Witness ==
    /\ Running
    /\ resume_training
    /\ pc = "inner"
    /\ gen_iterations = 24
    /\ disc_steps = 100
    /\ result_dir \in DOMAIN snap
    /\ snap[result_dir][2][1] < run
    /\ snap[result_dir][2][2] > 25

\* C10 as stated: for every penalty weight lambda_pen >= 0 each per-sample
\* penalty is lambda_pen * (norm - 1)^2 >= 0 and is 0 only when the norm of
\* that sample's gradient is exactly 1.
C10_ZeroOnlyAtUnitNorm ==
    \A k \in 1..Len(penalty) :
        LET sq == gradients[k][1] * gradients[k][1]
                    + gradients[k][2] * gradients[k][2]
        IN  /\ penalty[k] >= 0
            /\ \E n \in 0..(2 * MaxComp) :
                   n * n = sq /\ penalty[k] = lambda_pen * (n - GradScale) * (n - GradScale)
            /\ penalty[k] = 0 => sq = GradScale * GradScale

\* C10 amended: each per-sample penalty is lambda_pen * (norm - 1)^2 >= 0;
\* it is 0 exactly when the norm is 1 or lambda_pen is 0, so only for
\* lambda_pen > 0 does a zero penalty imply a gradient norm of exactly 1.
C10_ZeroIffUnitNormOrZeroWeight ==
    \A k \in 1..Len(penalty) :
        LET sq == gradients[k][1] * gradients[k][1]
                    + gradients[k][2] * gradients[k][2]
        IN  /\ penalty[k] >= 0
            /\ \E n \in 0..(2 * MaxComp) :
                   n * n = sq /\ penalty[k] = lambda_pen * (n - GradScale) * (n - GradScale)
            /\ penalty[k] = 0 <=> (lambda_pen = 0 \/ sq = GradScale * GradScale)

C10_Witness ==
    /\ Len(penalty) = PenBatch
    /\ lambda_pen > 0
    /\ penalty[1] = 0
    /\ gradients[1][1] # 0
    /\ gradients[1][2] # 0
    /\ penalty[PenBatch] > 0

\* a write of the parameter snapshots at the root of the result directory
RootSnapshotWritten ==
    /\ result_dir \in DOMAIN snap'
    /\ result_dir \notin DOMAIN snap \/ snap'[result_dir] # snap[result_dir]

\* C11: a run that is not interrupted terminates: an epoch ends exactly when
\* each of its batches has been consumed by exactly one discriminator update
\* (with between 1 and that many generator updates), after exactly the
\* configured number of epochs the final evaluation is reached, and only
\* after it are the final snapshots written at the run-directory root.
C11_RunTerminates ==
    /\ (Running ~> status = "ok")
    /\ []((Running /\ pc \in {"while", "inner"}) =>
            /\ i = train_iterator
            /\ i = steps - epoch_start_steps
            /\ i <= LenTrainLoader
            /\ gen_iterations - epoch_start_g <= i)
    /\ [][(Running /\ pc = "while" /\ pc' = "for") =>
            /\ train_iterator = LenTrainLoader
            /\ steps - epoch_start_steps = LenTrainLoader
            /\ gen_iterations - epoch_start_g >= 1
            /\ gen_iterations - epoch_start_g <= LenTrainLoader]_vars
    /\ [][(SameRun /\ steps - epoch_start_steps = LenTrainLoader
             /\ last_update = "G" /\ pc = "while") => pc' = "for"]_vars
    /\ []((Running /\ pc \in {"test", "save"}) =>
            /\ e = config.epochs - 1
            /\ steps = config.epochs * LenTrainLoader
            /\ gen_iterations >= config.epochs
            /\ gen_iterations <= steps)
    /\ [][(Running /\ RootSnapshotWritten) =>
            /\ pc = "save"
            /\ status' = "ok"
            /\ snap'[result_dir] = <<disc_params, gen_params>>]_vars
    /\ [][(Running /\ status' = "ok") => (pc = "save" /\ RootSnapshotWritten)]_vars

C11_Witness ==
    /\ Running
    /\ pc = "save"
    /\ ~resume_training
    /\ result_dir \notin DOMAIN snap
    /\ config.epochs = ResumeEpochs
    /\ LenTrainLoader > 1
    /\ steps = config.epochs * LenTrainLoader
    /\ gen_iterations - epoch_start_g = LenTrainLoader

====
